---------------------------- MODULE Spec2Model ----------------------------
(***************************************************************************)
(* A model of src/dataset.py of ml-recipe-hier-attention: the vocabulary   *)
(* loader, the tokenizer's clipping, the corpus with its lru_cache'd       *)
(* __getitem__, the batch collator and the SimilarRandSampler.             *)
(*                                                                         *)
(* Python lists are TLA+ sequences.  Python positions are 0-based, TLA+    *)
(* sequences are 1-based: a Python position p is element p + 1 here.       *)
(***************************************************************************)
EXTENDS Integers, Sequences, FiniteSets, TLC

VARIABLES
    \* ---- SimilarRandSampler and one caller iterating it
    keys,                 \* the caller's list handed to __init__ (txt_lens)
    _ids,                 \* self._ids
    _bs,                  \* self._bs
    _k,                   \* self._k
    _len,                 \* self._len
    pc,                   \* "idle" | "loop" (inside __iter__) | "iterating"
    cur_ids,              \* local of __iter__
    similar_key_batches,  \* local of __iter__, then the list behind iter()
    pos,                  \* how many elements the caller has taken
    idx,                  \* local of __iter__: the last anchor position
    pool,                 \* cur_ids as it was when the last round drew
    batches,              \* history: the batch of every round of this pass
    atInit,               \* history: keys/_ids/_bs/_k/_len after __init__
    past,                 \* history: how earlier passes ended, a subset
                          \* of {"complete", "abandoned"}
    \* ---- get_imdb_vocab
    words,                \* f.read().splitlines() of imdb.vocab
    vocabOut,             \* what get_imdb_vocab returned
    \* ---- tokenize_plane_text on a dataset object
    tokIn,                \* the object's clips and the text handed in
    tokOut,               \* what tokenize_plane_text returned or raised
    \* ---- collate_docs
    batchIn,              \* the list of items handed to collate_docs
    collated,             \* what collate_docs returned or raised
    \* ---- two ImdbReviewsDataset objects and the lru_cache of __getitem__
    corpus,               \* per object: its inputs, its fields, how
                          \* __init__ ended ("new" before it ran)
    cache,                \* the cache of __getitem__, one for the class:
                          \* its entries, least recently used first
    call,                 \* the last __getitem__ call and its outcome
    first                 \* history: per (object, index), the item its
                          \* first successful __getitem__ returned

samplerVars == <<keys, _ids, _bs, _k, _len, pc, cur_ids, similar_key_batches,
                 pos, idx, pool, batches, atInit, past>>

vocabVars == <<words, vocabOut>>
tokVars == <<tokIn, tokOut>>
collateVars == <<batchIn, collated>>

corpusVars == <<corpus, cache, call, first>>

vars == <<samplerVars, vocabVars, tokVars, collateVars, corpusVars>>

\* what the actions of one component leave alone
notSampler == <<vocabVars, tokVars, collateVars, corpusVars>>
notVocab == <<samplerVars, tokVars, collateVars, corpusVars>>
notTok == <<samplerVars, vocabVars, collateVars, corpusVars>>
notCollate == <<samplerVars, vocabVars, tokVars, corpusVars>>
notCorpus == <<samplerVars, vocabVars, tokVars, collateVars>>

-----------------------------------------------------------------------------
(* Bounds of the model *)

\* largest number of corpus items handed to the sampler
MaxN == 3
\* largest document length (a key of the sampler)
MaxKey == 2
\* largest batch size
MaxBs == 2
\* largest diversity
MaxK == 2
\* largest number of lines of a vocabulary file
MaxLines == 3
\* largest number of sentences of a raw document
MaxSnts == 2
\* largest number of word tokens of a raw sentence
MaxWords == 2
\* largest clip limit tried
MaxClip == 2
\* largest batch handed to collate_docs
MaxBatch == 3

-----------------------------------------------------------------------------
(* Constants of the program *)

\* the default snt_clip
SNT_CLIP == 100
\* the default txt_clip
TXT_CLIP == 40

-----------------------------------------------------------------------------
(* Python helpers *)

Min(a, b) == IF a <= b THEN a ELSE b
Max(a, b) == IF a >= b THEN a ELSE b

\* the elements of a list
Range(s) == {s[i] : i \in 1..Len(s)}

\* s[lo:hi] for lo, hi already within 0..len(s)
Slice(s, lo, hi) == IF hi <= lo THEN <<>> ELSE SubSeq(s, lo + 1, hi)

\* s[:c] with Python's rule for a negative c (counted from the end)
Prefix(s, c) ==
    IF c >= 0 THEN Slice(s, 0, Min(c, Len(s)))
              ELSE Slice(s, 0, Max(Len(s) + c, 0))

\* [e for e in s if e not in b]
RECURSIVE Without(_, _)
Without(s, b) ==
    IF s = <<>> THEN <<>>
    ELSE IF Head(s) \in Range(b) THEN Without(Tail(s), b)
         ELSE <<Head(s)>> \o Without(Tail(s), b)

\* every list of n distinct elements of S
Arrangements(S, n) ==
    {s \in [1..n -> S] : \A i, j \in 1..n : i # j => s[i] # s[j]}

\* int(np.ceil(n / b)) for n >= 0, b >= 1
CeilDiv(n, b) == (n + b - 1) \div b

-----------------------------------------------------------------------------
(* SimilarRandSampler *)

\* np.argsort(keys).tolist(): the 0-based indices of keys in ascending key
\* order.  The default sort kind is not stable, so equal keys may come in
\* any order: every ordering the sort may produce is a possible value.
ArgSorts(ks) ==
    {p \in Arrangements(0..(Len(ks) - 1), Len(ks)) :
        \A i \in 1..(Len(ks) - 1) : ks[p[i] + 1] <= ks[p[i + 1] + 1]}

\* a faulty draw: with replacement, as random.choices would
SamplesWithReplacement(population, n) ==
    {[i \in 1..n |-> population[f[i]]] :
        f \in [1..n -> 1..Len(population)]}

\* random.sample(population, n): n elements, without replacement, in the
\* order drawn
Samples(population, n) ==
    {[i \in 1..n |-> population[f[i]]] :
        f \in Arrangements(1..Len(population), n)}

\* a faulty lb: the window only looks forward from the anchor
WindowLbForward(i) == i

\* a faulty rb: the right end taken inclusive
WindowRbInclusive(i) == Min(Len(cur_ids), i + _k * _bs + 1)

\* lb of __iter__
WindowLb(i) == Max(0, i - _k * _bs)

\* rb of __iter__
WindowRb(i) == Min(Len(cur_ids), i + _k * _bs)

\* SimilarRandSampler(keys, bs, diversity): the assert holds
SamplerInit ==
    /\ keys \in UNION {[1..n -> 1..MaxKey] : n \in 0..MaxN}
    /\ _bs \in 1..MaxBs
    /\ _k \in 1..MaxK
    /\ _ids \in ArgSorts(keys)
    /\ _len = CeilDiv(Len(_ids), _bs)
    /\ atInit = [keys |-> keys, ids |-> _ids, bs |-> _bs, k |-> _k,
                 len |-> _len]
    /\ pc = "idle"
    /\ cur_ids = <<>>
    /\ similar_key_batches = <<>>
    /\ pos = 0
    /\ idx = 0
    /\ pool = <<>>
    /\ batches = <<>>
    /\ past = {}

\* __iter__, up to the while loop
IterBegin ==
    /\ pc = "idle"
    /\ cur_ids' = _ids
    /\ similar_key_batches' = <<>>
    /\ pc' = "loop"
    /\ batches' = <<>>
    /\ pool' = <<>>
    /\ idx' = 0
    /\ pos' = 0
    /\ UNCHANGED <<keys, _ids, _bs, _k, _len, atInit, past>>
    /\ UNCHANGED notSampler

\* a faulty round: the pool is self._ids itself (no copy), filtered in place
IterRoundInPlace ==
    /\ pc = "loop"
    /\ cur_ids # <<>>
    /\ \E i \in 0..(Len(cur_ids) - 1) :
         LET lb == WindowLb(i)
             rb == WindowRb(i)
         IN \E batch \in Samples(Slice(cur_ids, lb, rb), Min(_bs, rb - lb)) :
              /\ idx' = i
              /\ pool' = cur_ids
              /\ cur_ids' = Without(cur_ids, batch)
              /\ _ids' = Without(cur_ids, batch)
              /\ similar_key_batches' = similar_key_batches \o batch
              /\ batches' = Append(batches, batch)
    /\ UNCHANGED <<keys, _bs, _k, _len, pc, pos, atInit, past>>
    /\ UNCHANGED notSampler

\* one round of the while loop of __iter__
IterRound ==
    /\ pc = "loop"
    /\ cur_ids # <<>>
    /\ \E i \in 0..(Len(cur_ids) - 1) :
         LET lb == WindowLb(i)
             rb == WindowRb(i)
         IN \E batch \in Samples(Slice(cur_ids, lb, rb), Min(_bs, rb - lb)) :
              /\ idx' = i
              /\ pool' = cur_ids
              /\ cur_ids' = Without(cur_ids, batch)
              /\ similar_key_batches' = similar_key_batches \o batch
              /\ batches' = Append(batches, batch)
    /\ UNCHANGED <<keys, _ids, _bs, _k, _len, pc, pos, atInit, past>>
    /\ UNCHANGED notSampler

\* the loop ends and __iter__ returns iter(similar_key_batches)
IterReturn ==
    /\ pc = "loop"
    /\ cur_ids = <<>>
    /\ pc' = "iterating"
    /\ pos' = 0
    /\ UNCHANGED <<keys, _ids, _bs, _k, _len, cur_ids, similar_key_batches,
                   idx, pool, batches, atInit, past>>
    /\ UNCHANGED notSampler

\* the caller takes the next index from the iterator
IterNext ==
    /\ pc = "iterating"
    /\ pos < Len(similar_key_batches)
    /\ pos' = pos + 1
    /\ UNCHANGED <<keys, _ids, _bs, _k, _len, pc, cur_ids,
                   similar_key_batches, idx, pool, batches, atInit, past>>
    /\ UNCHANGED notSampler

\* the caller drops the iterator, exhausted or not; the locals of the pass
\* are gone with it
IterDrop ==
    /\ pc = "iterating"
    /\ pc' = "idle"
    /\ past' = past \cup {IF pos < Len(similar_key_batches)
                           THEN "abandoned" ELSE "complete"}
    /\ cur_ids' = <<>>
    /\ similar_key_batches' = <<>>
    /\ pos' = 0
    /\ idx' = 0
    /\ pool' = <<>>
    /\ batches' = <<>>
    /\ UNCHANGED <<keys, _ids, _bs, _k, _len, atInit>>
    /\ UNCHANGED notSampler

\* __len__
SamplerLen == _len

-----------------------------------------------------------------------------
(* ImdbReviewsDataset.get_imdb_vocab *)

\* dict(zip(ws, is)): a later pair with the same key replaces the earlier one
RECURSIVE DictZip(_, _)
DictZip(ws, is) ==
    IF ws = <<>> \/ is = <<>> THEN <<>>
    ELSE LET n == Min(Len(ws), Len(is))
             d == DictZip(SubSeq(ws, 1, n - 1), SubSeq(is, 1, n - 1))
         IN [w \in (DOMAIN d) \cup {ws[n]} |->
                IF w = ws[n] THEN is[n] ELSE d[w]]

\* a faulty vocabulary: ids counted from 0, as range(len(words)) would
GetImdbVocabFromZero(lines) ==
    DictZip(lines, [i \in 1..Len(lines) |-> i - 1])

\* get_imdb_vocab, from the lines of the file on:
\* ids = list(range(1, len(words) + 1)); vocab = dict(zip(words, ids))
GetImdbVocab(lines) ==
    DictZip(lines, [i \in 1..Len(lines) |-> i])

\* the words a line of the vocabulary file may hold (the empty line too)
FileWords == {"good", "bad", "the", ""}

VocabInit ==
    /\ words \in UNION {[1..n -> FileWords] : n \in 0..MaxLines}
    /\ vocabOut = [state |-> "none"]

\* a call of get_imdb_vocab
CallGetImdbVocab ==
    /\ vocabOut.state = "none"
    /\ vocabOut' = [state |-> "returned", vocab |-> GetImdbVocab(words)]
    /\ UNCHANGED words
    /\ UNCHANGED notVocab

-----------------------------------------------------------------------------
(* ImdbReviewsDataset.tokenize_plane_text *)

\* The sentence and word tokenizers, lower() and the tag pattern are library
\* code: a raw text is given here by what they make of it, the list of its
\* sentences, each the list of its word tokens.

\* the vocabulary of the datasets: {"good": 1, "bad": 2}
Vocab == GetImdbVocab(<<"good", "bad">>)

\* the word tokens of the raw texts; "!" is out of the vocabulary
Tokens == {"good", "bad", "!"}

\* the raw texts tried: any number of sentences, none too; a sentence has
\* at least one word token
RawTexts ==
    LET Sentences == UNION {[1..n -> Tokens] : n \in 1..MaxWords}
    IN UNION {[1..n -> Sentences] : n \in 0..MaxSnts}

\* the clip limits tried; tokenize_plane_text takes any integer
Clips == -1..MaxClip

\* max(list) of a non-empty list of integers
ListMax(s) == CHOOSE m \in Range(s) : \A e \in Range(s) : e <= m

\* [vocab[w] for w in snt if w in vocab.keys()][:snt_clip]
SentenceIds(vocabulary, snt, sntClip) ==
    LET known == SelectSeq(snt, LAMBDA w : w \in DOMAIN vocabulary)
    IN Prefix([i \in 1..Len(known) |-> vocabulary[known[i]]], sntClip)

\* a faulty tokenizer: the maximum of an empty text is 0, as
\* max(..., default=0) would give
TokenizeNoRaise(vocabulary, sentences, sntClip, txtClip) ==
    LET text == Prefix([i \in 1..Len(sentences) |->
                           SentenceIds(vocabulary, sentences[i], sntClip)],
                       txtClip)
    IN [state |-> "returned",
        text |-> text,
        snt_len_max |-> IF text = <<>> THEN 0
                        ELSE ListMax([i \in 1..Len(text) |-> Len(text[i])]),
        txt_len |-> Len(text)]

\* a faulty tokenizer: the two clips taken for one another
TokenizeClipsSwapped(vocabulary, sentences, sntClip, txtClip) ==
    LET text == Prefix([i \in 1..Len(sentences) |->
                           SentenceIds(vocabulary, sentences[i], txtClip)],
                       sntClip)
    IN IF text = <<>>
       THEN [state |-> "raised", error |-> "ValueError"]
       ELSE [state |-> "returned",
             text |-> text,
             snt_len_max |-> ListMax([i \in 1..Len(text) |-> Len(text[i])]),
             txt_len |-> Len(text)]

\* tokenize_plane_text from the tokenizers' output on: the ids of the known
\* words, clipped; max() of an empty list raises ValueError
TokenizePlaneText(vocabulary, sentences, sntClip, txtClip) ==
    LET text == Prefix([i \in 1..Len(sentences) |->
                           SentenceIds(vocabulary, sentences[i], sntClip)],
                       txtClip)
    IN IF text = <<>>
       THEN [state |-> "raised", error |-> "ValueError"]
       ELSE [state |-> "returned",
             text |-> text,
             snt_len_max |-> ListMax([i \in 1..Len(text) |-> Len(text[i])]),
             txt_len |-> Len(text)]

TokInit ==
    /\ tokIn \in [snt_clip : Clips, txt_clip : Clips, sentences : RawTexts]
    /\ tokOut = [state |-> "none"]

\* a call of tokenize_plane_text
CallTokenizePlaneText ==
    /\ tokOut.state = "none"
    /\ tokOut' = TokenizePlaneText(Vocab, tokIn.sentences, tokIn.snt_clip,
                                   tokIn.txt_clip)
    /\ UNCHANGED tokIn
    /\ UNCHANGED notTok

-----------------------------------------------------------------------------
(* collate_docs *)

\* torch.zeros((n, rows, cols)) as nested lists
Zeros(n, rows, cols) == [i \in 1..n |-> [j \in 1..rows |-> [c \in 1..cols |-> 0]]]

\* docs_tensor[i_doc, i_snt, 0:len(snt)] = torch.tensor(snt) for every
\* sentence of every item, on the tensor t; i_snt and the slice are within
\* the tensor's shape
RECURSIVE FillDocs(_, _, _, _)
FillDocs(t, items, iDoc, iSnt) ==
    IF iDoc > Len(items) THEN t
    ELSE IF iSnt > Len(items[iDoc].txt) THEN FillDocs(t, items, iDoc + 1, 1)
    ELSE LET snt == items[iDoc].txt[iSnt]
         IN FillDocs([t EXCEPT ![iDoc][iSnt] =
                         [c \in 1..Len(@) |->
                             IF c <= Len(snt) THEN snt[c] ELSE @[c]]],
                     items, iDoc, iSnt + 1)

\* whether every write of FillDocs is within a tensor of rows x cols
FitsTensor(items, rows, cols) ==
    \A i \in 1..Len(items) :
        /\ Len(items[i].txt) <= rows
        /\ \A j \in 1..Len(items[i].txt) : Len(items[i].txt[j]) <= cols

\* a faulty collator: the tensor is sized by the first item of the batch
CollateDocsFirstItem(items) ==
    IF items = <<>> THEN [state |-> "raised", error |-> "ValueError"]
    ELSE LET max_snt == items[1].snt_len
             max_txt == items[1].txt_len
         IN IF ~FitsTensor(items, max_txt, max_snt)
            THEN [state |-> "raised", error |-> "IndexError or RuntimeError"]
            ELSE [state |-> "returned",
                  features |-> FillDocs(Zeros(Len(items), max_txt, max_snt),
                                        items, 1, 1),
                  targets |-> [i \in 1..Len(items) |-> <<items[i].label>>]]

\* collate_docs: max() of an empty batch raises ValueError; a write outside
\* the tensor raises (IndexError for a row, RuntimeError for a slice)
CollateDocs(items) ==
    IF items = <<>> THEN [state |-> "raised", error |-> "ValueError"]
    ELSE LET max_snt == ListMax([i \in 1..Len(items) |-> items[i].snt_len])
             max_txt == ListMax([i \in 1..Len(items) |-> items[i].txt_len])
         IN IF ~FitsTensor(items, max_txt, max_snt)
            THEN [state |-> "raised", error |-> "IndexError or RuntimeError"]
            ELSE [state |-> "returned",
                  features |-> FillDocs(Zeros(Len(items), max_txt, max_snt),
                                        items, 1, 1),
                  targets |-> [i \in 1..Len(items) |-> <<items[i].label>>]]

\* the item __getitem__ builds from the stored fields of one document
Item(text, label, txtLen, sntLen) ==
    [txt |-> text, label |-> label, txt_len |-> txtLen, snt_len |-> sntLen]

\* the raw texts of the documents collated: the text "Good! Bad.", a text
\* of unknown words only, and two longer ones
CollateTexts ==
    { << <<"good", "!">>, <<"bad", "!">> >>,
      << <<"!">> >>,
      << <<"good", "bad", "good">>, <<"bad">>, <<"good", "bad">> >>,
      << <<"bad", "bad", "good", "good">> >> }

\* the corpus items of those documents under the default clips
CollateItems ==
    {LET tok == TokenizePlaneText(Vocab, t, SNT_CLIP, TXT_CLIP)
     IN Item(tok.text, l, tok.txt_len, tok.snt_len_max) :
        t \in CollateTexts, l \in {0, 1}}

CollateInit ==
    /\ batchIn \in UNION {[1..n -> CollateItems] : n \in 0..MaxBatch}
    /\ collated = [state |-> "none"]

\* a call of collate_docs
CallCollateDocs ==
    /\ collated.state = "none"
    /\ collated' = CollateDocs(batchIn)
    /\ UNCHANGED batchIn
    /\ UNCHANGED notCollate

-----------------------------------------------------------------------------
(* ImdbReviewsDataset: __init__, _load_data, __getitem__ behind lru_cache *)

\* maxsize of the lru_cache of __getitem__: 50_000 in the source, scaled
\* down to make evictions happen
CacheMaxSize == 2

\* the two objects of get_datasets: train and test
Datasets == {1, 2}

\* a file of the corpus root: its path, its parent directory's name and what
\* the tokenizers make of its text
File(path, parent, sentences) ==
    [path |-> path, parent |-> parent, sentences |-> sentences]

\* the corpus roots tried, each the list _load_data builds: the files of
\* neg, then those of pos
Roots ==
    { <<>>,
      << File("neg/0_3.txt", "neg", << <<"!">> >>) >>,
      << File("neg/0_1.txt", "neg", << <<"good", "!">>, <<"bad", "!">> >>),
         File("pos/0_9.txt", "pos",
              << <<"good", "bad", "good">>, <<"bad">>, <<"good", "bad">> >>) >>,
      << File("neg/0_1.txt", "neg", << <<"good", "!">>, <<"bad", "!">> >>),
         File("pos/1_8.txt", "pos", <<>>) >> }

\* the clips tried, <<snt_clip, txt_clip>>: the defaults, clips that cut, and
\* a txt_clip that leaves no sentence
CorpusClips == {<<SNT_CLIP, TXT_CLIP>>, <<1, 2>>, <<2, 0>>}

\* the fields __init__ sets before _load_data
NewCorpus(files, sntClip, txtClip) ==
    [status |-> "new", files |-> files,
     _snt_clip |-> sntClip, _txt_clip |-> txtClip,
     _paths |-> <<>>, _texts |-> <<>>, _labels |-> <<>>,
     _snt_lens |-> <<>>, _txt_lens |-> <<>>]

\* _load_data from file n on, and the end of __init__: an exception of
\* tokenize_plane_text leaves _load_data and __init__, and the caller gets
\* no object
RECURSIVE LoadData(_, _)
LoadData(c, n) ==
    IF n > Len(c.files) THEN [c EXCEPT !.status = "ready"]
    ELSE LET file == c.files[n]
             tok == TokenizePlaneText(Vocab, file.sentences, c._snt_clip,
                                      c._txt_clip)
             label == IF file.parent = "pos" THEN 1 ELSE 0
         IN IF tok.state = "raised"
            THEN [c EXCEPT !.status = "raised"]
            ELSE LoadData(
                     [c EXCEPT !._paths = Append(@, file.path),
                               !._texts = Append(@, tok.text),
                               !._labels = Append(@, label),
                               !._snt_lens = Append(@, tok.snt_len_max),
                               !._txt_lens = Append(@, tok.txt_len)],
                     n + 1)

\* __len__
CorpusLen(c) == Len(c._texts)

\* a faulty index: a negative index wraps around any number of times
ListIndexWrap(n, i) ==
    IF n = 0 \/ i >= n THEN 0 ELSE (i % n) + 1

\* list[i] of a list of n elements: the element's place (1-based), counted
\* from the end for a negative i, or 0 where Python raises IndexError
ListIndex(n, i) ==
    IF 0 <= i /\ i < n THEN i + 1
    ELSE IF -n <= i /\ i < 0 THEN n + i + 1
    ELSE 0

\* the body of __getitem__
GetItemBody(c, i) ==
    LET at == ListIndex(Len(c._texts), i)
    IN IF at = 0
       THEN [state |-> "raised", error |-> "IndexError"]
       ELSE [state |-> "returned",
             value |-> Item(c._texts[at], c._labels[at], c._txt_lens[at],
                            c._snt_lens[at])]

\* a faulty cache key: the index alone, without the object
MakeKeyNoSelf(d, i) == <<0, i>>

\* the key lru_cache makes of the arguments (self, i); an object hashes and
\* compares by identity
MakeKey(d, i) == <<d, i>>

\* the place of key in the cache, or 0
CacheFind(entries, key) ==
    IF \E e \in 1..Len(entries) : entries[e].key = key
    THEN CHOOSE e \in 1..Len(entries) : entries[e].key = key
    ELSE 0

\* the cache after a hit at place e: the entry becomes the most recent
CacheTouch(entries, e) ==
    SubSeq(entries, 1, e - 1) \o SubSeq(entries, e + 1, Len(entries))
        \o <<entries[e]>>

\* the cache after a miss: the new entry is the most recent, and the least
\* recently used one goes when the cache was full
CacheAdd(entries, key, value) ==
    LET kept == IF Len(entries) >= CacheMaxSize THEN Tail(entries)
                ELSE entries
    IN Append(kept, [key |-> key, value |-> value])

CorpusInit ==
    /\ corpus \in {[d \in Datasets |->
                      NewCorpus(r[d], cl[d][1], cl[d][2])] :
                   r \in [Datasets -> Roots], cl \in [Datasets -> CorpusClips]}
    /\ cache = <<>>
    /\ call = [state |-> "none"]
    /\ first = <<>>

\* ImdbReviewsDataset(path, vocab, snt_clip, txt_clip)
Construct(d) ==
    /\ corpus[d].status = "new"
    /\ corpus' = [corpus EXCEPT ![d] = LoadData(@, 1)]
    /\ UNCHANGED <<cache, call, first>>
    /\ UNCHANGED notCorpus

\* dataset[i] on an object its caller holds: the lru_cache wrapper, and the
\* body of __getitem__ on a miss; an exception of the body is not cached
GetItem(d, i) ==
    /\ corpus[d].status = "ready"
    /\ LET key == MakeKey(d, i)
           e == CacheFind(cache, key)
           made == GetItemBody(corpus[d], i)
           wasCached == \E n \in 1..Len(cache) : cache[n].key = <<d, i>>
       IN IF e # 0
          THEN /\ cache' = CacheTouch(cache, e)
               /\ call' = [state |-> "returned", d |-> d, i |-> i,
                           value |-> cache[e].value, computed |-> FALSE,
                           wasCached |-> wasCached]
               /\ first' = first
          ELSE IF made.state = "raised"
          THEN /\ cache' = cache
               /\ call' = [state |-> "raised", d |-> d, i |-> i,
                           error |-> made.error, computed |-> TRUE,
                           wasCached |-> wasCached]
               /\ first' = first
          ELSE /\ cache' = CacheAdd(cache, key, made.value)
               /\ call' = [state |-> "returned", d |-> d, i |-> i,
                           value |-> made.value, computed |-> TRUE,
                           wasCached |-> wasCached]
               /\ first' = IF <<d, i>> \in DOMAIN first THEN first
                           ELSE [k \in (DOMAIN first) \cup {<<d, i>>} |->
                                    IF k = <<d, i>> THEN made.value
                                    ELSE first[k]]
    /\ UNCHANGED corpus
    /\ UNCHANGED notCorpus

\* the indices tried on an object: every valid one, every negative one that
\* Python counts from the end, and one beyond on either side
Indices(c) == (-(CorpusLen(c) + 1))..CorpusLen(c)

-----------------------------------------------------------------------------
(* The specifications: one per component, the other components at rest *)

VocabIdle == words = <<>> /\ vocabOut = [state |-> "none"]
TokIdle == tokIn = [state |-> "none"] /\ tokOut = [state |-> "none"]
CollateIdle == batchIn = <<>> /\ collated = [state |-> "none"]
CorpusIdle ==
    /\ corpus = <<>> /\ cache = <<>> /\ call = [state |-> "none"]
    /\ first = <<>>
SamplerIdle ==
    /\ keys = <<>> /\ _ids = <<>> /\ _bs = 1 /\ _k = 1 /\ _len = 0
    /\ atInit = [state |-> "none"]
    /\ pc = "idle" /\ cur_ids = <<>> /\ similar_key_batches = <<>>
    /\ pos = 0 /\ idx = 0 /\ pool = <<>> /\ batches = <<>> /\ past = {}

InitSampler ==
    SamplerInit /\ VocabIdle /\ TokIdle /\ CollateIdle /\ CorpusIdle
NextSampler ==
    \/ IterBegin
    \/ IterRound
    \/ IterReturn
    \/ IterNext
    \/ IterDrop
SpecSampler == InitSampler /\ [][NextSampler]_vars

InitVocab ==
    VocabInit /\ SamplerIdle /\ TokIdle /\ CollateIdle /\ CorpusIdle
NextVocab == CallGetImdbVocab
SpecVocab == InitVocab /\ [][NextVocab]_vars

InitTok == TokInit /\ SamplerIdle /\ VocabIdle /\ CollateIdle /\ CorpusIdle
NextTok == CallTokenizePlaneText
SpecTok == InitTok /\ [][NextTok]_vars

InitCollate ==
    CollateInit /\ SamplerIdle /\ VocabIdle /\ TokIdle /\ CorpusIdle
NextCollate == CallCollateDocs
SpecCollate == InitCollate /\ [][NextCollate]_vars

InitCorpus ==
    CorpusInit /\ SamplerIdle /\ VocabIdle /\ TokIdle /\ CollateIdle
NextCorpus ==
    \/ \E d \in Datasets : Construct(d)
    \/ \E d \in Datasets : \E i \in Indices(corpus[d]) : GetItem(d, i)
SpecCorpus == InitCorpus /\ [][NextCorpus]_vars

-----------------------------------------------------------------------------
(* Properties of SimilarRandSampler, checked under SpecSampler *)

\* the number of corpus items
CorpusSize == Len(keys)

\* the concatenation of a list of lists
RECURSIVE Flatten(_)
Flatten(ss) == IF ss = <<>> THEN <<>> ELSE Head(ss) \o Flatten(Tail(ss))

\* the 0-based position of e in list s (e occurs in s)
PositionOf(e, s) == (CHOOSE q \in 1..Len(s) : s[q] = e) - 1

\* C1: once __iter__ has returned, its output has length n and holds each of
\* 0..n-1 exactly once, whatever anchors and draws were taken.
C1_Permutation ==
    pc = "iterating" =>
        /\ Len(similar_key_batches) = CorpusSize
        /\ Range(similar_key_batches) = 0..(CorpusSize - 1)
        /\ \A i, j \in 1..Len(similar_key_batches) :
               i # j => similar_key_batches[i] # similar_key_batches[j]

\* C1 witness: a complete pass over a corpus of three items, taken to its
\* end by the caller, in an order that is not the sorted one
C1_Witness ==
    /\ pc = "iterating"
    /\ CorpusSize >= 3
    /\ pos = Len(similar_key_batches)
    /\ similar_key_batches # _ids

\* C2: every index drawn in a round sits, in the pool of that round (the
\* sorted list minus the indices of earlier rounds, order kept), at a position
\* inside [max(0, p - diversity*bs), min(poolSize, p + diversity*bs)) for the
\* round's anchor p.
C2_Locality ==
    batches # <<>> =>
        LET batch == batches[Len(batches)]
            earlier == Flatten(SubSeq(batches, 1, Len(batches) - 1))
            span == atInit.k * atInit.bs
        IN /\ pool = SelectSeq(atInit.ids, LAMBDA e : e \notin Range(earlier))
           /\ idx \in 0..(Len(pool) - 1)
           /\ \A b \in 1..Len(batch) :
                /\ batch[b] \in Range(pool)
                /\ PositionOf(batch[b], pool) >= Max(0, idx - span)
                /\ PositionOf(batch[b], pool) < Min(Len(pool), idx + span)

\* C2 witness: a later round whose window leaves out part of the pool
C2_Witness ==
    /\ Len(batches) >= 2
    /\ Min(Len(pool), idx + _k * _bs) - Max(0, idx - _k * _bs) < Len(pool)

\* C9: iterating leaves keys, _ids, _bs, _k and _len as __init__ set them, and
\* every pass starts from the whole sorted index list.
C9_SamplerUnchanged ==
    /\ keys = atInit.keys
    /\ _ids = atInit.ids
    /\ _bs = atInit.bs
    /\ _k = atInit.k
    /\ _len = atInit.len
    /\ (pc = "loop" /\ batches = <<>>) =>
          /\ cur_ids = atInit.ids
          /\ cur_ids \in ArgSorts(atInit.keys)
          /\ Range(cur_ids) = 0..(CorpusSize - 1)

\* C9 witness: a pass starting after one complete and one abandoned pass
C9_Witness ==
    /\ pc = "loop"
    /\ batches = <<>>
    /\ past = {"complete", "abandoned"}
    /\ CorpusSize >= 2

\* C10: every round draws exactly min(bs, poolSize) indices (the window is
\* never smaller), so a pass takes ceil(n / bs) rounds, which is what __len__
\* reports, and the output cut into chunks of bs gives back the batches.
C10_Rounds ==
    /\ batches # <<>> =>
         /\ Len(batches[Len(batches)]) = Min(atInit.bs, Len(pool))
         /\ Min(Len(pool), idx + atInit.k * atInit.bs)
                - Max(0, idx - atInit.k * atInit.bs)
              >= Min(atInit.bs, Len(pool))
    /\ pc = "iterating" =>
         /\ Len(batches) = SamplerLen
         /\ SamplerLen * atInit.bs >= CorpusSize
         /\ (SamplerLen - 1) * atInit.bs < CorpusSize
         /\ \A r \in 1..Len(batches) :
              batches[r] = Slice(similar_key_batches, (r - 1) * atInit.bs,
                                 Min(r * atInit.bs, CorpusSize))

\* C10 witness: a pass of two rounds whose last batch is the shorter one
C10_Witness ==
    /\ pc = "iterating"
    /\ Len(batches) = 2
    /\ Len(batches[2]) < Len(batches[1])


-----------------------------------------------------------------------------
(* Properties of get_imdb_vocab, checked under SpecVocab *)

\* the ids a vocabulary maps to
VocabIds(v) == {v[w] : w \in DOMAIN v}

\* whether no two lines of the file hold the same word
DistinctLines == \A i, j \in 1..Len(words) : i # j => words[i] # words[j]

\* C6 as claimed: for every file of N lines, repeated words or not, the ids
\* of the vocabulary are exactly 1..N, given in file order, and never 0.
C6_BijectionAnyFile ==
    vocabOut.state = "returned" =>
        /\ VocabIds(vocabOut.vocab) = 1..Len(words)
        /\ \A i \in 1..Len(words) : vocabOut.vocab[words[i]] = i
        /\ 0 \notin VocabIds(vocabOut.vocab)

\* C6 amended: every word of the file is mapped, to the number of the last
\* line holding it; ids are within 1..N, never 0, and no two words share one;
\* when no word is repeated the ids are exactly 1..N in file order.
C6_LastLineWins ==
    vocabOut.state = "returned" =>
        LET v == vocabOut.vocab
        IN /\ DOMAIN v = Range(words)
           /\ \A w \in DOMAIN v :
                /\ v[w] \in 1..Len(words)
                /\ v[w] # 0
                /\ words[v[w]] = w
                /\ \A i \in (v[w] + 1)..Len(words) : words[i] # w
           /\ \A w1, w2 \in DOMAIN v : w1 # w2 => v[w1] # v[w2]
           /\ DistinctLines =>
                /\ VocabIds(v) = 1..Len(words)
                /\ \A i \in 1..Len(words) : v[words[i]] = i

\* C6 witness: the vocabulary of a file of three lines, one word repeated
C6_Witness ==
    /\ vocabOut.state = "returned"
    /\ Len(words) = 3
    /\ Cardinality(Range(words)) = 2

-----------------------------------------------------------------------------
(* Properties of tokenize_plane_text, checked under SpecTok *)

\* the ids of the known words of every sentence, nothing clipped
Unclipped(sentences) ==
    [j \in 1..Len(sentences) |->
        LET known == SelectSeq(sentences[j], LAMBDA w : w \in {"good", "bad"})
        IN [i \in 1..Len(known) |-> IF known[i] = "good" THEN 1 ELSE 2]]

\* whether list s is the start of list t
IsPrefix(s, t) == Len(s) <= Len(t) /\ s = SubSeq(t, 1, Len(s))

\* what C7 says of a returned document apart from the two bounds: kept
\* sentences and ids are prefixes of the unclipped ones, and the two
\* statistics are the number of sentences and the largest sentence length
PrefixAndStatistics ==
    LET full == Unclipped(tokIn.sentences)
    IN /\ Len(tokOut.text) <= Len(full)
       /\ \A j \in 1..Len(tokOut.text) : IsPrefix(tokOut.text[j], full[j])
       /\ tokOut.txt_len = Len(tokOut.text)
       /\ \A j \in 1..Len(tokOut.text) :
              Len(tokOut.text[j]) <= tokOut.snt_len_max
       /\ \E j \in 1..Len(tokOut.text) :
              Len(tokOut.text[j]) = tokOut.snt_len_max

\* C7 as claimed: whatever the clip limits, a returned document has at most
\* txt_clip sentences of at most snt_clip ids each, prefixes of the unclipped
\* ones, with the two statistics right.
C7_ClippedAnyLimits ==
    tokOut.state = "returned" =>
        /\ Len(tokOut.text) <= tokIn.txt_clip
        /\ \A j \in 1..Len(tokOut.text) :
               Len(tokOut.text[j]) <= tokIn.snt_clip
        /\ PrefixAndStatistics

\* C7 amended: the prefixes and the statistics hold for all clip limits; the
\* bound on the number of sentences holds for txt_clip >= 0 and the bound on
\* the sentence lengths for snt_clip >= 0.
C7_ClippedNonNegative ==
    tokOut.state = "returned" =>
        /\ tokIn.txt_clip >= 0 => Len(tokOut.text) <= tokIn.txt_clip
        /\ tokIn.snt_clip >= 0 =>
               \A j \in 1..Len(tokOut.text) :
                   Len(tokOut.text[j]) <= tokIn.snt_clip
        /\ PrefixAndStatistics

\* C7 witness: a document of two sentences, one of two known words, returned
\* under clips of 1: both clips cut
C7_Witness ==
    /\ tokOut.state = "returned"
    /\ tokIn.txt_clip = 1
    /\ tokIn.snt_clip = 1
    /\ Len(tokIn.sentences) = 2
    /\ Len(Unclipped(tokIn.sentences)[1]) = 2
    /\ tokOut.text = << <<Unclipped(tokIn.sentences)[1][1]>> >>

-----------------------------------------------------------------------------
(* Properties of collate_docs, checked under SpecCollate *)

\* the largest document length and the largest sentence length of the batch
BatchMaxTxt == ListMax([i \in 1..Len(batchIn) |-> Len(batchIn[i].txt)])
BatchMaxSnt ==
    ListMax([i \in 1..Len(batchIn) |->
                ListMax([j \in 1..Len(batchIn[i].txt) |->
                            Len(batchIn[i].txt[j])])])

\* C3: for a non-empty batch of corpus items collate_docs returns features of
\* shape [N, max_txt, max_snt] holding every word id at its place and 0
\* everywhere else, and targets of shape [N, 1] holding the labels.
C3_Collated ==
    (batchIn # <<>> /\ collated.state # "none") =>
        /\ collated.state = "returned"
        /\ Len(collated.features) = Len(batchIn)
        /\ Len(collated.targets) = Len(batchIn)
        /\ \A i \in 1..Len(batchIn) :
             /\ collated.targets[i] = <<batchIn[i].label>>
             /\ Len(collated.features[i]) = BatchMaxTxt
             /\ \A j \in 1..BatchMaxTxt :
                  /\ Len(collated.features[i][j]) = BatchMaxSnt
                  /\ \A c \in 1..BatchMaxSnt :
                       collated.features[i][j][c] =
                           IF j <= Len(batchIn[i].txt)
                                /\ c <= Len(batchIn[i].txt[j])
                           THEN batchIn[i].txt[j][c]
                           ELSE 0

\* C3 witness: a collated batch whose first item is shorter than the batch's
\* tensor in both directions and whose last item is not the largest either
C3_Witness ==
    /\ collated.state = "returned"
    /\ Len(batchIn) = 3
    /\ Len(batchIn[1].txt) < BatchMaxTxt
    /\ batchIn[1].snt_len < BatchMaxSnt
    /\ batchIn[1].label # batchIn[2].label
    /\ Len(batchIn[3].txt) < BatchMaxTxt

-----------------------------------------------------------------------------
(* Properties of ImdbReviewsDataset, checked under SpecCorpus *)

\* the item stored at place at (1-based) of object c
StoredItem(c, at) ==
    [txt |-> c._texts[at], label |-> c._labels[at],
     txt_len |-> c._txt_lens[at], snt_len |-> c._snt_lens[at]]

\* C4: a __getitem__ with a valid index returns the item stored for that
\* index of that object, equal to what the first such call returned, whatever
\* calls on either object came between; it is not computed again while its
\* entry is in the cache, and every cached entry is the stored item.
C4_Memoized ==
    /\ (call.state = "returned" /\ call.i >= 0) =>
         /\ call.i < CorpusLen(corpus[call.d])
         /\ call.value = StoredItem(corpus[call.d], call.i + 1)
         /\ <<call.d, call.i>> \in DOMAIN first
         /\ call.value = first[<<call.d, call.i>>]
         /\ call.wasCached => ~call.computed
    /\ \A e \in 1..Len(cache) :
         cache[e].key[2] >= 0 =>
            /\ cache[e].key[1] \in Datasets
            /\ cache[e].value =
                 StoredItem(corpus[cache[e].key[1]], cache[e].key[2] + 1)

\* C4 witness: a call served from the cache while the cache also holds the
\* other object's different item of the same index
C4_Witness ==
    /\ call.state = "returned"
    /\ call.i >= 0
    /\ call.wasCached
    /\ ~call.computed
    /\ \E e \in 1..Len(cache) :
         /\ cache[e].key[1] # call.d
         /\ cache[e].key[2] = call.i
         /\ cache[e].value # call.value

\* C5 as claimed: __getitem__ raises IndexError for every index outside
\* [0, length), the negative ones too, and returns an item only inside.
C5_RaisesOutsideRange ==
    call.state # "none" =>
        LET n == CorpusLen(corpus[call.d])
        IN /\ (call.i < 0 \/ call.i >= n) =>
                (call.state = "raised" /\ call.error = "IndexError")
           /\ call.state = "returned" => (0 <= call.i /\ call.i < n)

\* C5 amended: __getitem__ raises IndexError for index >= length and for
\* index < -length; for 0 <= index < length it returns the item of that
\* index, and for -length <= index < 0 the item of index + length.
C5_RaisesBeyondBothEnds ==
    call.state # "none" =>
        LET n == CorpusLen(corpus[call.d])
        IN /\ (call.i >= n \/ call.i < -n) =>
                (call.state = "raised" /\ call.error = "IndexError")
           /\ (0 <= call.i /\ call.i < n) =>
                /\ call.state = "returned"
                /\ call.value = StoredItem(corpus[call.d], call.i + 1)
           /\ (-n <= call.i /\ call.i < 0) =>
                /\ call.state = "returned"
                /\ call.value = StoredItem(corpus[call.d], n + call.i + 1)

\* C5 witness: a call with index -1 that returned the last item of a corpus
\* of two
C5_Witness ==
    /\ call.state = "returned"
    /\ call.i = -1
    /\ CorpusLen(corpus[call.d]) = 2
    /\ call.value = StoredItem(corpus[call.d], 2)

\* whether a file's text has no sentence left after [:txtClip]
ZeroSentences(file, txtClip) ==
    \/ Len(file.sentences) = 0
    \/ txtClip = 0
    \/ (txtClip < 0 /\ Len(file.sentences) + txtClip <= 0)

\* C8: when a file of the root tokenizes to zero sentences, __init__ raises:
\* the lists hold the documents before that file and nothing for it, no
\* statistic of 0 is stored, and no caller holds the object, so no
\* __getitem__ is ever served by it.
C8_EmptyDocumentFailsLoad ==
    \A d \in Datasets :
        LET c == corpus[d]
            empties == {n \in 1..Len(c.files) :
                           ZeroSentences(c.files[n], c._txt_clip)}
        IN (c.status # "new" /\ empties # {}) =>
             LET k == CHOOSE n \in empties : \A m \in empties : n <= m
             IN /\ c.status = "raised"
                /\ Len(c._texts) = k - 1
                /\ Len(c._paths) = k - 1
                /\ Len(c._labels) = k - 1
                /\ Len(c._snt_lens) = k - 1
                /\ Len(c._txt_lens) = k - 1
                /\ 0 \notin Range(c._txt_lens)
                /\ <<>> \notin Range(c._texts)
                /\ call.state # "none" => call.d # d
                /\ \A e \in 1..Len(cache) : cache[e].key[1] # d

\* C8 witness: a load that raised on its second file, the first one already
\* in the lists, while the other object serves items
C8_Witness ==
    \E d \in Datasets :
        /\ corpus[d].status = "raised"
        /\ Len(corpus[d]._texts) = 1
        /\ Len(corpus[d].files) = 2
        /\ call.state = "returned"

=============================================================================
